---- MODULE Spec2Model ----
(***************************************************************************)
(* Email-link authentication routes of src/routes/auth.js.                 *)
(*                                                                         *)
(* The server is event driven: a request runs through the middleware chain *)
(* and its route handler up to the first storage call, and resumes in the  *)
(* callback of that call.  Every action below is one such uninterrupted    *)
(* run: the arrival of a request, or the completion of one storage or mail *)
(* call together with the callback the code passes to it.  Callbacks of    *)
(* different requests interleave freely.                                   *)
(***************************************************************************)
EXTENDS Integers, Sequences, FiniteSets, TLC

\* ------------------------------------------------------------------ bounds
MaxTokens == 2   \* calls of uuid()
MaxReqs   == 3   \* requests the server receives

ReqIds   == {1, 2}   \* requests in flight at the same time
Sessions == {1, 2}   \* browser sessions

\* ---------------------------------------------------------- configuration
path         == "/auth"     \* options.path || '/auth'
pages        == "auth"      \* options.pages || 'auth'
DefaultClientMaxAge == 60000    \* options.clientMaxAge || 60000

\* A value that may be undefined is a sequence of length 0 (undefined) or 1.
Undefined == <<>>

\* options.db: the chain of properties db, db.models, db.models.user that exist
DbValues == { Undefined, <<"db">>, <<"db", "models">>, <<"db", "models", "user">> }
ClientMaxAgeValues == { Undefined, <<0>>, <<5000>> }
OptionObjects == [db : DbValues, clientMaxAge : ClientMaxAgeValues]

\* The third argument of configure: undefined or an options object.
OptionValues == {Undefined} \cup { <<o>> : o \in OptionObjects }

\* Options that name the user storage and leave everything else to its default.
DefaultOptions ==
    { Undefined, <<[db |-> <<"db", "models", "user">>, clientMaxAge |-> Undefined]>> }

\* if (!options) options = {}
Given(opts) ==
    IF opts = Undefined THEN [db |-> Undefined, clientMaxAge |-> Undefined]
                        ELSE opts[1]

\* JavaScript's v || default on an optional number
Falsy(v) == v = Undefined \/ v[1] = 0
Or(v, default) == IF Falsy(v) THEN default ELSE v[1]

LacksDb(o) == Len(o.db) < 1

\* !options.db || !options.db.models || !options.db.models.user
LacksUser(o) == Len(o.db) < 1 \/ Len(o.db) < 2 \/ Len(o.db) < 3

\* What configure registers on the server, in order.
Registered ==
    << "bodyParser.json", "bodyParser.urlencoded", "session", "csrf", "enrich",
       "GET /csrf", "GET /session", "POST /email/signin",
       "GET /email/signin/:token", "POST /signout" >>

\* ------------------------------------------------------------------ values
NoUser  == 0                \* session.user absent / callback got no user
NoToken == 0                \* user.token null / req.params.token missing
NoName  == <<>>             \* user.name never set by this code
UnknownToken == MaxTokens + 1   \* a token value uuid() never returned

\* The values the form field body.email takes: strings as sequences of
\* characters, so that trim() is computed and not assumed.
EmailValues == { <<>>, <<" ">>, <<" ", " ">>, <<"a">>, <<" ", "a">> }

RECURSIVE TrimLeft(_)
TrimLeft(s) == IF s # <<>> /\ Head(s) = " " THEN TrimLeft(Tail(s)) ELSE s

RECURSIVE TrimRight(_)
TrimRight(s) ==
    IF s # <<>> /\ s[Len(s)] = " " THEN TrimRight(SubSeq(s, 1, Len(s) - 1)) ELSE s

\* String.prototype.trim
trim(s) == TrimRight(TrimLeft(s))

\* ---------------------------------------------------------------- responses
NoJson    == [none |-> TRUE]
NoResp    == [type |-> "none", to |-> "", json |-> NoJson]
Redirect(url) == [type |-> "redirect", to |-> url, json |-> NoJson]
Render(page)  == [type |-> "render", to |-> page, json |-> NoJson]
Json(body)    == [type |-> "json", to |-> "", json |-> body]
\* lusca's csrf ends the request itself; its status code is opaque here.
Rejected  == [type |-> "rejected", to |-> "", json |-> NoJson]

\* res.locals._csrf : the per-session anti-forgery token, an opaque value.
CsrfToken(s) == s

\* -------------------------------------------------------------------- state
VARIABLES
    users,      \* storage: sequence of user records, the id is the index
    sessions,   \* session store: session id -> user id or NoUser
    reqs,       \* per slot: the request being served and where it stands
    nextToken,  \* the next value uuid() returns
    mailed,     \* history: tokens whose email went to the mail transport
    served,     \* number of requests received so far
    validDone,  \* history: tokens for which a redemption answered "valid"
    options,    \* the options configure is called with
    startup,    \* configure: idle (not called), failed (threw), ok (returned)
    registered, \* middleware and routes registered on the server
    clientMaxAge  \* const clientMaxAge of configure

cfgVars == <<options, startup, registered, clientMaxAge>>

vars == <<users, sessions, reqs, nextToken, mailed, served, validDone,
          options, startup, registered, clientMaxAge>>

Kinds == {"session", "issue", "redeem", "signout"}

IdleReq ==
    [ kind   |-> "none",   \* route
      pc     |-> "idle",   \* the callback the request waits for, or done
      sess   |-> 1,        \* the session of the request
      csrfOk |-> TRUE,     \* the request carries a valid CSRF token
      has    |-> FALSE,    \* body.email is present
      email  |-> <<>>,     \* body.email
      token  |-> NoToken,  \* req.params.token, or the token uuid() returned
      uid    |-> NoUser,   \* id handed to User.get / id of the loaded user
      locals |-> NoUser,   \* res.locals.user is that of this user
      fetch  |-> "none",   \* what the enrichment's User.get handed back:
                           \* none (not called or pending), record, nothing
      nexts  |-> 0,        \* calls of next() by the enrichment middleware
      mail   |-> "none",   \* sendMail: none, pending, sent, logged
      threw  |-> FALSE,    \* a callback of the request threw
      after  |-> FALSE,    \* history: token was in validDone on arrival
      prior  |-> {},       \* history: persisted tokens of this email on arrival
      resp   |-> NoResp ]

\* The state before configure is called with one of the given options.
Start(optionValues) ==
    /\ options \in optionValues
    /\ startup = "idle"
    /\ registered = <<>>
    /\ clientMaxAge = 0
    /\ users = <<>>
    /\ sessions = [s \in Sessions |-> NoUser]
    /\ reqs = [r \in ReqIds |-> IdleReq]
    /\ nextToken = 1
    /\ served = 0
    /\ mailed = {}
    /\ validDone = {}

Init == Start(DefaultOptions)

InitConfigure == Start(OptionValues)

\* exports.configure(app, server, options)
Configure ==
    /\ startup = "idle"
    /\ LET o == Given(options) IN
       IF LacksUser(o)
         THEN /\ startup' = "failed"
              /\ UNCHANGED <<registered, clientMaxAge>>
         ELSE /\ startup' = "ok"
              /\ clientMaxAge' = Or(o.clientMaxAge, DefaultClientMaxAge)
              /\ registered' = Registered
    /\ UNCHANGED <<options, users, sessions, reqs, nextToken, mailed, served, validDone>>

UserIds == 1..Len(users)

\* A slot takes a new request once its request has no callback outstanding.
Free(r) == reqs[r].pc \in {"idle", "done"} /\ reqs[r].mail # "pending"

Put(r, q) == reqs' = [reqs EXCEPT ![r] = q]

\* The request has answered: what is kept of it is its route, its session,
\* its rendering context and what the client got; the handler's variables
\* are gone.
Answer(q, resp) ==
    [IdleReq EXCEPT !.kind = q.kind, !.pc = "done", !.sess = q.sess,
                    !.csrfOk = q.csrfOk, !.locals = q.locals,
                    !.fetch = q.fetch, !.nexts = q.nexts,
                    !.mail = q.mail, !.resp = resp]


\* ------------------------------------------------------------------ storage
\* The first argument of a storage or mail callback: an error, or none.
Errs == BOOLEAN

\* User.get(id, cb): the record with that id, or none.
UserGet(id) == IF id \in UserIds THEN id ELSE NoUser

\* What User.one(filter, cb) may hand to cb: nothing when the call failed or
\* no record matches, else one of the matching records (the query states no
\* order).
OneOf(err, matches) == IF err \/ matches = {} THEN {NoUser} ELSE matches

ByEmail(e) == {u \in UserIds : users[u].email = e}
ByToken(t) == {u \in UserIds : users[u].token = t}

\* User.create({ email: email, token: token }, cb)
NewUser(e, t) == [email |-> e, name |-> NoName, token |-> t, verified |-> FALSE]

\* ------------------------------------------------------------- sign-out
SignoutUserKeep(u) == u

\* if (req.session.user) delete req.session.user
SignoutUser(u) == IF u # NoUser THEN NoUser ELSE u

SignoutHandler(r, q) ==
    /\ sessions' = [sessions EXCEPT ![q.sess] = SignoutUser(sessions[q.sess])]
    /\ Put(r, Answer(q, Redirect("/")))
    /\ UNCHANGED <<users, nextToken, mailed, validDone>>

\* ---------------------------------------------------------- session info
AnonymousJson(s) == [clientMaxAge |-> clientMaxAge, csrfToken |-> CsrfToken(s)]

UserJson(u, s) ==
    [ user |-> [name |-> users[u].name, email |-> users[u].email],
      clientMaxAge |-> clientMaxAge,
      csrfToken |-> CsrfToken(s) ]

SessionHandler(r, q) ==
    /\ IF sessions[q.sess] # NoUser
         THEN Put(r, [q EXCEPT !.pc = "get", !.uid = sessions[q.sess]])
         ELSE Put(r, Answer(q, Json(AnonymousJson(q.sess))))
    /\ UNCHANGED <<users, sessions, nextToken, mailed, validDone>>

\* Callback of User.get in the session route.  With no user the callback
\* reads user.name of undefined and throws: no response is sent.
SessionGetDone(r) ==
    LET q == reqs[r] IN
    /\ q.kind = "session" /\ q.pc = "get"
    /\ \E err \in Errs :
         LET user == IF err THEN NoUser ELSE UserGet(q.uid) IN
         IF user = NoUser
           THEN Put(r, [Answer(q, NoResp) EXCEPT !.threw = TRUE])
           ELSE Put(r, Answer(q, Json(UserJson(user, q.sess))))
    /\ UNCHANGED <<users, sessions, nextToken, mailed, served, validDone, cfgVars>>

\* -------------------------------------------------------------- issuance
IsBlankNoTrim(has, e) == ~has \/ e = <<>>

\* const email = req.body.email || null ; !email || email.trim() == ''
IsBlank(has, e) == (~has \/ e = <<>>) \/ trim(e) = <<>>

IssueHandler(r, q) ==
    IF IsBlank(q.has, q.email)
      THEN /\ Put(r, [Answer(q, Render(pages \o "/signin"))
                         EXCEPT !.has = q.has, !.email = q.email])
           /\ UNCHANGED <<users, sessions, nextToken, mailed, validDone>>
      ELSE /\ nextToken <= MaxTokens
           /\ nextToken' = nextToken + 1
           /\ mailed' = mailed \cup {nextToken}
           /\ Put(r, [q EXCEPT !.token = nextToken, !.pc = "lookup",
                               !.mail = "pending",
                               !.resp = Render(pages \o "/check-email")])
           /\ UNCHANGED <<users, sessions, validDone>>

\* Callback of User.one({ email: email }) : err is not looked at.
IssueLookupDone(r) ==
    LET q == reqs[r] IN
    /\ q.kind = "issue" /\ q.pc = "lookup"
    /\ \E err \in Errs : \E user \in OneOf(err, ByEmail(q.email)) :
         IF user # NoUser
           THEN Put(r, [q EXCEPT !.pc = "save", !.uid = user])
           ELSE Put(r, [q EXCEPT !.pc = "create"])
    /\ UNCHANGED <<users, sessions, nextToken, mailed, served, validDone, cfgVars>>

IssueStoredSurface(q, err) ==
    [Answer(q, IF err THEN Render(pages \o "/error") ELSE q.resp)
       EXCEPT !.threw = err]

\* function(err) { if (err) throw err } : the response is not touched.  The
\* error goes up into the storage library, no handler of this file sees it.
IssueStored(q, err) == [Answer(q, q.resp) EXCEPT !.threw = err]

\* user.token = token ; user.save(cb)
IssueSaveDone(r) ==
    LET q == reqs[r] IN
    /\ q.kind = "issue" /\ q.pc = "save"
    /\ \E err \in Errs :
         /\ users' = IF err THEN users ELSE [users EXCEPT ![q.uid].token = q.token]
         /\ Put(r, IssueStored(q, err))
    /\ UNCHANGED <<sessions, nextToken, mailed, served, validDone, cfgVars>>

\* User.create({ email: email, token: token }, cb)
IssueCreateDone(r) ==
    LET q == reqs[r] IN
    /\ q.kind = "issue" /\ q.pc = "create"
    /\ \E err \in Errs :
         /\ users' = IF err THEN users ELSE Append(users, NewUser(q.email, q.token))
         /\ Put(r, IssueStored(q, err))
    /\ UNCHANGED <<sessions, nextToken, mailed, served, validDone, cfgVars>>

\* Callback of sendMail: an error is written to the console, nothing else.
MailDone(r) ==
    LET q == reqs[r] IN
    /\ q.mail = "pending"
    /\ \E err \in Errs : Put(r, [q EXCEPT !.mail = IF err THEN "logged" ELSE "sent"])
    /\ UNCHANGED <<users, sessions, nextToken, mailed, served, validDone, cfgVars>>

\* ------------------------------------------------------------ redemption
RedeemMissValid == path \o "/valid"

\* else branch of the User.one callback: res.redirect(path+'/invalid')
RedeemMiss == path \o "/invalid"

RedeemNoTokenInvalid == path \o "/invalid"

\* if (!req.params.token) return res.redirect(path+'/signin')
RedeemNoToken == path \o "/signin"

RedeemHandler(r, q) ==
    /\ IF q.token = NoToken
         THEN Put(r, Answer(q, Redirect(RedeemNoToken)))
         ELSE Put(r, [q EXCEPT !.pc = "lookup"])
    /\ UNCHANGED <<users, sessions, nextToken, mailed, validDone>>

\* Callback of User.one({ token: req.params.token }) : err is not looked at.
RedeemLookupDone(r) ==
    LET q == reqs[r] IN
    /\ q.kind = "redeem" /\ q.pc = "lookup"
    /\ \E err \in Errs : \E user \in OneOf(err, ByToken(q.token)) :
         IF user # NoUser
           THEN Put(r, [q EXCEPT !.pc = "save", !.uid = user])
           ELSE Put(r, Answer(q, Redirect(RedeemMiss)))
    /\ UNCHANGED <<users, sessions, nextToken, mailed, served, validDone, cfgVars>>

\* user.token = null ; user.verified = true ; user.save(cb).  The callback
\* binds the session and redirects without looking at err.
RedeemSaveDone(r) ==
    LET q == reqs[r] IN
    /\ q.kind = "redeem" /\ q.pc = "save"
    /\ \E err \in Errs :
         users' = IF err THEN users
                  ELSE [users EXCEPT ![q.uid].token = NoToken,
                                     ![q.uid].verified = TRUE]
    /\ sessions' = [sessions EXCEPT ![q.sess] = q.uid]
    /\ validDone' = validDone \cup {q.token}
    /\ Put(r, Answer(q, Redirect(path \o "/valid")))
    /\ UNCHANGED <<nextToken, mailed, served, cfgVars>>

\* ------------------------------------------------------------- middleware
IsPost(kind) == kind \in {"issue", "signout"}

CsrfNeverBlocks(kind, ok) == FALSE

\* csrf(req, res, next): a POST without a valid token does not reach next().
CsrfBlocks(kind, ok) == IsPost(kind) /\ ~ok

Route(r, q) ==
    CASE q.kind = "session" -> SessionHandler(r, q)
      [] q.kind = "issue"   -> IssueHandler(r, q)
      [] q.kind = "redeem"  -> RedeemHandler(r, q)
      [] q.kind = "signout" -> SignoutHandler(r, q)

\* The chain a request runs through on arrival: CSRF check, then the
\* enrichment middleware, which calls next() at once for a session without
\* user and otherwise after User.get.
Middleware(r, q) ==
    IF CsrfBlocks(q.kind, q.csrfOk)
      THEN /\ Put(r, Answer(q, Rejected))
           /\ UNCHANGED <<users, sessions, nextToken, mailed, validDone>>
      ELSE IF sessions[q.sess] = NoUser
        THEN Route(r, [q EXCEPT !.nexts = q.nexts + 1])
        ELSE /\ Put(r, [q EXCEPT !.pc = "enrich", !.uid = sessions[q.sess]])
             /\ UNCHANGED <<users, sessions, nextToken, mailed, validDone>>

LocalsOfId(id, user) == id

\* if (user) { res.locals.user = { name: user.name, email: user.email } }
LocalsOf(id, user) == IF user # NoUser THEN user ELSE NoUser

\* Callback of User.get in the enrichment middleware, then next().
EnrichDone(r) ==
    LET q == reqs[r] IN
    /\ q.pc = "enrich"
    /\ \E err \in Errs :
         LET user == IF err THEN NoUser ELSE UserGet(q.uid) IN
         Route(r, [q EXCEPT !.locals = LocalsOf(q.uid, user),
                            !.fetch = IF user # NoUser THEN "record" ELSE "nothing",
                            !.uid = NoUser,
                            !.nexts = q.nexts + 1])
    /\ UNCHANGED <<served, cfgVars>>

\* Token path parameters a client may send: none, a token some email
\* carried, or a value never issued.
TokenInputs == {NoToken, UnknownToken} \cup (1..(nextToken - 1))

PersistedFor(e) == {users[u].token : u \in ByEmail(e)} \ {NoToken}

\* A request arrives and is served in the first free slot.
Incoming(r) ==
    /\ Free(r) /\ \A r2 \in 1..(r - 1) : ~Free(r2)
    /\ startup = "ok"
    /\ served < MaxReqs
    /\ served' = served + 1
    /\ UNCHANGED cfgVars
    /\ \E s \in Sessions :
         \/ Middleware(r, [IdleReq EXCEPT !.kind = "session", !.sess = s])
         \/ \E ok \in BOOLEAN :
              Middleware(r, [IdleReq EXCEPT !.kind = "signout", !.sess = s,
                                            !.csrfOk = ok])
         \/ \E ok \in BOOLEAN, has \in BOOLEAN, e \in EmailValues :
              /\ ~has => e = <<>>
              /\ Middleware(r, [IdleReq EXCEPT !.kind = "issue", !.sess = s,
                                  !.csrfOk = ok, !.has = has, !.email = e,
                                  !.prior = PersistedFor(e)])
         \/ \E t \in TokenInputs :
              Middleware(r, [IdleReq EXCEPT !.kind = "redeem", !.sess = s,
                                  !.token = t, !.after = (t \in validDone)])

Next ==
    \/ Configure
    \/ \E r \in ReqIds :
       \/ Incoming(r)
       \/ EnrichDone(r)
       \/ SessionGetDone(r)
       \/ IssueLookupDone(r)
       \/ IssueSaveDone(r)
       \/ IssueCreateDone(r)
       \/ MailDone(r)
       \/ RedeemLookupDone(r)
       \/ RedeemSaveDone(r)

Spec == Init /\ [][Next]_vars

\* The storage call the request in slot r waits for calls back.
StorageCallback(r) ==
    \/ EnrichDone(r)
    \/ SessionGetDone(r)
    \/ IssueLookupDone(r)
    \/ IssueSaveDone(r)
    \/ IssueCreateDone(r)
    \/ RedeemLookupDone(r)
    \/ RedeemSaveDone(r)

\* Every storage call eventually calls back.
StorageFair == \A r \in ReqIds : WF_vars(StorageCallback(r))

SpecFair == Spec /\ StorageFair

\* The same server, configured with any of the option values.
SpecConfigure == InitConfigure /\ [][Next]_vars

\* ------------------------------------------------- steps of one request
\* The step in which a request arrives in slot r.
Arrived(r) ==
    /\ served' = served + 1
    /\ Free(r) /\ \A r2 \in 1..(r - 1) : ~Free(r2)

\* The step in which the route handler of the request in slot r runs: on
\* arrival, or after the enrichment middleware's User.get.
Handled(r) ==
    \/ Arrived(r) /\ reqs'[r].pc # "enrich"
    \/ ~Arrived(r) /\ reqs[r].pc = "enrich" /\ reqs'[r].pc # "enrich"

\* The step in which the callback the request in slot r waits for at pc runs.
Resumed(r, kind, pc) ==
    /\ ~Arrived(r)
    /\ reqs[r].kind = kind /\ reqs[r].pc = pc /\ reqs'[r].pc # pc

\* body.email is absent, empty or only whitespace.
BlankInput(q) ==
    ~q.has \/ q.email = <<>> \/ \A i \in 1..Len(q.email) : q.email[i] = " "

StoredTokens(us) == {us[u].token : u \in 1..Len(us)} \ {NoToken}

\* ------------------------------------------------------------------ claims

\* C1: a redemption whose token is the outstanding token of a user record
\* (the lookup found that record) ends, when its save completes, with the
\* session bound to that user, the user's stored token null, the user's
\* stored verified flag true and a redirect to {base}/valid.
C1_RedeemBindsAndConsumes ==
    [][\A r \in ReqIds :
         Resumed(r, "redeem", "save") =>
            /\ sessions'[reqs[r].sess] = reqs[r].uid
            /\ users'[reqs[r].uid].token = NoToken
            /\ users'[reqs[r].uid].verified
            /\ reqs'[r].resp = Redirect("/auth/valid")]_vars

\* C2: a redemption that arrives after a redemption of the same token has
\* answered {base}/valid answers {base}/invalid and changes no session.
C2_SingleUse ==
    [][\A r \in ReqIds :
         ( /\ reqs[r].kind = "redeem" /\ reqs[r].after
           /\ reqs[r].pc \in {"lookup", "save"} /\ reqs'[r].pc = "done" ) =>
            /\ reqs'[r].resp = Redirect("/auth/invalid")
            /\ sessions' = sessions]_vars

\* C3: a redemption whose token is stored on no user record when the lookup
\* runs answers {base}/invalid, is then finished, and changes neither the
\* sessions nor the user records.
C3_UnknownTokenInvalid ==
    [][\A r \in ReqIds :
         (Resumed(r, "redeem", "lookup") /\ reqs[r].token \notin StoredTokens(users)) =>
            /\ reqs'[r].resp = Redirect("/auth/invalid")
            /\ reqs'[r].pc = "done"
            /\ sessions' = sessions
            /\ users' = users]_vars

\* C3 witness: with a token outstanding on a record, a redemption carrying
\* another token has been answered {base}/invalid and nobody is signed in.
C3_Witness ==
    \E r \in ReqIds :
       /\ reqs[r].kind = "redeem" /\ reqs[r].pc = "done"
       /\ reqs[r].resp = Redirect("/auth/invalid")
       /\ StoredTokens(users) # {}
       /\ \A s \in Sessions : sessions[s] = NoUser

\* C4: when the create or save of an issuance completes, a user record with
\* the submitted email carries a non-null token and the client got the
\* check-email page.
C4_IssueLeavesToken ==
    [][\A r \in ReqIds :
         (Resumed(r, "issue", "save") \/ Resumed(r, "issue", "create")) =>
            /\ \E u \in 1..Len(users') :
                  users'[u].email = reqs[r].email /\ users'[u].token # NoToken
            /\ reqs'[r].resp = Render("auth/check-email")]_vars

\* C5: once an issuance for an email is persisted, no token that was stored
\* for that email when the issuance arrived is stored on any record: only
\* the new token can be redeemed.
C5_OneOutstandingToken ==
    [][\A r \in ReqIds :
         ( /\ Resumed(r, "issue", "save") \/ Resumed(r, "issue", "create")
           /\ reqs[r].token \in StoredTokens(users') ) =>
            reqs[r].prior \cap StoredTokens(users') = {}]_vars

\* C6: a sign-out that reaches its handler leaves the session without user,
\* redirects to '/', and changes no user record.
C6_SignoutClears ==
    [][\A r \in ReqIds :
         (Handled(r) /\ reqs'[r].kind = "signout" /\ reqs'[r].csrfOk) =>
            /\ sessions'[reqs'[r].sess] = NoUser
            /\ \A s \in Sessions \ {reqs'[r].sess} : sessions'[s] = sessions[s]
            /\ reqs'[r].resp = Redirect("/")
            /\ reqs'[r].pc = "done"
            /\ users' = users]_vars

\* C6 witness: a sign-out of a session that was bound to a verified user
\* (the enrichment middleware loaded the user) has been answered.
C6_Witness ==
    \E r \in ReqIds :
       /\ reqs[r].kind = "signout" /\ reqs[r].pc = "done"
       /\ reqs[r].locals # NoUser
       /\ reqs[r].resp = Redirect("/")
       /\ sessions[reqs[r].sess] = NoUser
       /\ users[reqs[r].locals].verified

\* C7: every session request is answered with JSON: for a session without
\* user exactly clientMaxAge and csrfToken, for a session with user these
\* and a user field of exactly name and email.
C7_SessionJson ==
    [][\A r \in ReqIds :
         /\ (Handled(r) /\ reqs'[r].kind = "session" /\ reqs'[r].pc = "done") =>
               /\ reqs'[r].resp.type = "json"
               /\ DOMAIN reqs'[r].resp.json = {"clientMaxAge", "csrfToken"}
         /\ Resumed(r, "session", "get") =>
               /\ reqs'[r].resp.type = "json"
               /\ DOMAIN reqs'[r].resp.json = {"user", "clientMaxAge", "csrfToken"}
               /\ DOMAIN reqs'[r].resp.json.user = {"name", "email"}]_vars

\* C8: a POST that arrives without a valid CSRF token is answered by the
\* CSRF middleware and is finished: no token is generated, no user record
\* and no session changes, no email is dispatched.
C8_CsrfRejects ==
    [][\A r \in ReqIds :
         (Arrived(r) /\ reqs'[r].kind \in {"issue", "signout"} /\ ~reqs'[r].csrfOk) =>
            /\ reqs'[r].resp = Rejected
            /\ reqs'[r].pc = "done"
            /\ reqs'[r].mail = "none"
            /\ nextToken' = nextToken
            /\ mailed' = mailed
            /\ users' = users
            /\ sessions' = sessions]_vars

\* C8 witness: a sign-out without CSRF token was rejected and its session
\* is still bound to a user.
C8_Witness ==
    \E r \in ReqIds :
       /\ reqs[r].kind = "signout" /\ ~reqs[r].csrfOk
       /\ reqs[r].resp = Rejected
       /\ sessions[reqs[r].sess] # NoUser

\* C9: an issuance whose email is absent, empty or only whitespace gets the
\* sign-in page and is finished: no token, no lookup, no record created or
\* changed, no email.
C9_BlankEmail ==
    [][\A r \in ReqIds :
         ( /\ Handled(r) /\ reqs'[r].kind = "issue" /\ reqs'[r].csrfOk
           /\ BlankInput(reqs'[r]) ) =>
            /\ reqs'[r].resp = Render("auth/signin")
            /\ reqs'[r].pc = "done"
            /\ reqs'[r].mail = "none"
            /\ reqs'[r].token = NoToken
            /\ nextToken' = nextToken
            /\ mailed' = mailed
            /\ users' = users
            /\ sessions' = sessions]_vars

\* C9 witness: an issuance with a whitespace-only email was answered with
\* the sign-in page while a user record exists.
C9_Witness ==
    \E r \in ReqIds :
       /\ reqs[r].kind = "issue" /\ reqs[r].has /\ reqs[r].email = <<" ", " ">>
       /\ reqs[r].resp = Render("auth/signin")
       /\ users # <<>>

\* C10: an issuance with a non-blank email is answered with the check-email
\* page by its handler, and no later callback of the request (lookup,
\* create, save, mail; with or without error) changes that answer; the
\* mail callback changes nothing but the state of the dispatch.
C10_AlwaysCheckEmail ==
    [][\A r \in ReqIds :
         /\ ( /\ Handled(r) /\ reqs'[r].kind = "issue" /\ reqs'[r].csrfOk
              /\ ~BlankInput(reqs'[r]) ) =>
               /\ reqs'[r].resp = Render("auth/check-email")
               /\ reqs'[r].mail = "pending"
         /\ ( /\ ~Arrived(r) /\ reqs[r].kind = "issue"
              /\ reqs[r].mail # "none" ) =>
               reqs'[r].resp = Render("auth/check-email")
         /\ ( /\ ~Arrived(r) /\ reqs[r].mail = "pending"
              /\ reqs'[r].mail # "pending" ) =>
               /\ reqs'[r] = [reqs[r] EXCEPT !.mail = reqs'[r].mail]
               /\ users' = users
               /\ sessions' = sessions]_vars

\* C10 witness: both the storage call and the mail dispatch of an issuance
\* failed and the client has the check-email page.
C10_Witness ==
    \E r \in ReqIds :
       /\ reqs[r].kind = "issue" /\ reqs[r].pc = "done"
       /\ reqs[r].threw /\ reqs[r].mail = "logged"
       /\ reqs[r].resp = Render("auth/check-email")

\* C11: the enrichment middleware calls next() exactly once for every
\* request that reaches it: at once when the session has no user, else in
\* the callback of User.get, whether that handed back a record or nothing
\* (not found or error); res.locals.user is set only when it handed back a
\* record, and then to that record.
C11_EnrichmentPassesOn ==
    [][\A r \in ReqIds :
         /\ ( /\ Arrived(r)
              /\ ~(reqs'[r].kind \in {"issue", "signout"} /\ ~reqs'[r].csrfOk) ) =>
               IF sessions[reqs'[r].sess] = NoUser
                 THEN /\ reqs'[r].nexts = 1 /\ reqs'[r].pc # "enrich"
                      /\ reqs'[r].locals = NoUser /\ reqs'[r].fetch = "none"
                 ELSE /\ reqs'[r].nexts = 0 /\ reqs'[r].pc = "enrich"
         /\ (~Arrived(r) /\ reqs[r].pc = "enrich" /\ reqs'[r] # reqs[r]) =>
               /\ reqs'[r].nexts = 1 /\ reqs'[r].pc # "enrich"
               /\ reqs'[r].fetch \in {"record", "nothing"}
               /\ reqs'[r].fetch = "record" => reqs'[r].locals = reqs[r].uid
               /\ reqs'[r].fetch = "nothing" => reqs'[r].locals = NoUser
         /\ (~Arrived(r) /\ reqs[r].pc # "enrich") =>
               /\ reqs'[r].nexts = reqs[r].nexts
               /\ reqs'[r].locals = reqs[r].locals]_vars

\* C11 witness: a request of a bound session whose enrichment fetch handed
\* back nothing went on to its route handler and was answered.
C11_Witness ==
    \E r \in ReqIds :
       /\ reqs[r].fetch = "nothing" /\ reqs[r].nexts = 1
       /\ reqs[r].locals = NoUser
       /\ reqs[r].pc = "done" /\ reqs[r].resp # NoResp

\* C12: when configure is called without options, or with options whose
\* db, db.models or db.models.user is missing, it fails (throws) and
\* registers no middleware and no route: the server never serves a request.
C12_NoUserStorageFailsStartup ==
    (options = Undefined \/ Len(options[1].db) < 3) =>
        /\ startup \in {"idle", "failed"}
        /\ registered = <<>>
        /\ served = 0 /\ \A r \in ReqIds : reqs[r] = IdleReq

\* C12 witness: configure was called with a db handle that has models but
\* no user model, and failed.
C12_Witness ==
    /\ options # Undefined /\ options[1].db = <<"db", "models">>
    /\ startup = "failed" /\ registered = <<>>

\* C13: of the redemptions of one token T that are served concurrently,
\* at most one is answered with the redirect to valid and binds a session:
\* a redemption that arrived before any redemption of T was answered
\* "valid" is itself answered "valid" only if still none has been.
C13_OneConcurrentRedemptionWins ==
    [][\A r \in ReqIds :
         ( /\ Resumed(r, "redeem", "save")
           /\ ~reqs[r].after
           /\ reqs'[r].resp = Redirect("/auth/valid") ) =>
             reqs[r].token \notin validDone]_vars

\* C14: when a redemption has loaded a user record and an issuance stores
\* a new token T2 on that record before the redemption's save completes,
\* then once that save has completed the stored token of the record is
\* null and T2 is stored on no record (so redeeming T2 ends in "invalid").
C14_LastWriteWins ==
    [][\A r \in ReqIds :
         ( /\ Resumed(r, "redeem", "save")
           /\ users[reqs[r].uid].token \notin {NoToken, reqs[r].token} ) =>
             /\ users'[reqs[r].uid].token = NoToken
             /\ users[reqs[r].uid].token \notin StoredTokens(users')]_vars

\* C15: at most one user record exists per email address, whatever
\* issuance requests were served and however they interleaved.
C15_EmailUnique ==
    \A u1, u2 \in UserIds : users[u1].email = users[u2].email => u1 = u2

\* C16: in every reachable state a session with a user references a record
\* whose stored verified flag is true, and every token whose redemption
\* was answered "valid" (and so bound a session) is stored on no record.
C16_BoundSessionIsVerified ==
    /\ \A s \in Sessions :
          sessions[s] # NoUser =>
             /\ sessions[s] \in UserIds
             /\ users[sessions[s]].verified
    /\ \A t \in validDone : t \notin StoredTokens(users)

\* C17: the verified flag of a record is true exactly when a token of that
\* user has been redeemed.  Step by step: a record is created unverified;
\* a flag that is true stays true; a flag turns true only in the step in
\* which a redemption that loaded the record is answered "valid", and in
\* every such step the flag is true afterwards; no step of an issuance
\* changes the flag of an existing record.
C17_VerifiedIffRedeemed ==
    [][/\ \A u \in 1..Len(users') :
            IF u \notin UserIds
              THEN ~users'[u].verified
              ELSE /\ users[u].verified => users'[u].verified
                   /\ (~users[u].verified /\ users'[u].verified) =>
                         \E r \in ReqIds :
                            /\ Resumed(r, "redeem", "save")
                            /\ reqs[r].uid = u
                            /\ reqs'[r].resp = Redirect("/auth/valid")
                   /\ (\E r \in ReqIds : reqs[r].kind = "issue" /\ reqs'[r] # reqs[r])
                         => users'[u].verified = users[u].verified
       /\ \A r \in ReqIds :
            ( /\ Resumed(r, "redeem", "save")
              /\ reqs'[r].resp = Redirect("/auth/valid") ) =>
                users'[reqs[r].uid].verified]_vars

\* C18: the clientMaxAge of every JSON answer of the session route is the
\* configured options.clientMaxAge whenever one is configured, 0 included,
\* and 60000 when none is configured.
C18_ClientMaxAgeAsConfigured ==
    \A r \in ReqIds :
       (reqs[r].kind = "session" /\ reqs[r].resp.type = "json") =>
          LET configured == Given(options).clientMaxAge IN
          reqs[r].resp.json.clientMaxAge =
             IF configured = Undefined THEN 60000 ELSE configured[1]

\* C19: an email goes to the mail transport only in the step in which an
\* issuance hands it over, its verification URL carries the token generated
\* for that request, and at that moment the token is already stored on a
\* user record with the request's email address.
C19_MailAfterPersist ==
    [][\A t \in mailed' \ mailed :
         \E r \in ReqIds :
            /\ Handled(r) /\ reqs'[r].kind = "issue"
            /\ reqs'[r].token = t
            /\ \E u \in UserIds :
                  users[u].token = t /\ users[u].email = reqs'[r].email]_vars

\* C20: a redemption request is answered exactly once, with a redirect to
\* signin when it carries no token, to invalid when its lookup hands back
\* no record, to valid when its save has called back; an answer given is
\* never replaced; a session is bound only in the step that answers
\* "valid"; and, every storage call calling back eventually, every
\* redemption request is eventually answered.
C20_RedeemAnswersOnce ==
    /\ [][\A r \in ReqIds :
            /\ (Handled(r) /\ reqs'[r].kind = "redeem") =>
                  /\ IF reqs'[r].pc = "done"
                       THEN /\ reqs'[r].resp = Redirect("/auth/signin")
                            /\ ~Arrived(r) => reqs[r].token = NoToken
                       ELSE /\ reqs'[r].pc = "lookup"
                            /\ reqs'[r].token # NoToken
                            /\ reqs'[r].resp = NoResp
                  /\ sessions' = sessions
            /\ Resumed(r, "redeem", "lookup") =>
                  /\ \/ reqs'[r].pc = "save" /\ reqs'[r].resp = NoResp
                     \/ /\ reqs'[r].pc = "done"
                        /\ reqs'[r].resp = Redirect("/auth/invalid")
                  /\ sessions' = sessions
            /\ Resumed(r, "redeem", "save") =>
                  /\ reqs'[r].pc = "done"
                  /\ reqs'[r].resp = Redirect("/auth/valid")
            /\ (reqs[r].kind = "redeem" /\ reqs[r].resp # NoResp /\ ~Arrived(r)) =>
                  reqs'[r] = reqs[r]
            /\ \A s \in Sessions :
                  (sessions'[s] # sessions[s] /\ sessions'[s] # NoUser) =>
                     \E r2 \in ReqIds :
                        /\ Resumed(r2, "redeem", "save") /\ reqs[r2].sess = s
                        /\ reqs'[r2].resp = Redirect("/auth/valid")]_vars
    /\ \A r \in ReqIds :
          (reqs[r].kind = "redeem" /\ reqs[r].pc # "done")
             ~> (reqs[r].pc = "done" /\ reqs[r].resp.type = "redirect")

\* C20 witness: two redemptions served side by side have both been
\* answered, one without token with the redirect to signin, the other with
\* the redirect to valid and its session bound.
C20_Witness ==
    \E r1, r2 \in ReqIds :
       /\ reqs[r1].kind = "redeem" /\ reqs[r1].resp = Redirect("/auth/signin")
       /\ reqs[r2].kind = "redeem" /\ reqs[r2].resp = Redirect("/auth/valid")
       /\ sessions[reqs[r2].sess] # NoUser

====
